---- MODULE Spec2Model ----
(***************************************************************************)
(* Model of motion_sensor.py: a PIR motion sensor triggers the recording   *)
(* of a fixed-length clip that is transcoded and mailed.                   *)
(*                                                                         *)
(* Time is counted in ticks of 50 ms, the polling interval of              *)
(* motion_confirmed (time.sleep(0.05)).  clock is the value time.time()    *)
(* returns; it only moves forward.  Computation takes no time; time passes *)
(* in the blocking calls (sensor waits, sleeps) and between the return of  *)
(* pir.wait_for_motion() and the first statement after it.                 *)
(***************************************************************************)
EXTENDS Integers, Sequences, FiniteSets, TLC

\* ------------------------------------------------------------ constants
\* ticks per second: one tick is the 0.05 s of time.sleep(0.05)
TicksPerSecond == 20
\* time.sleep(0.05), in ticks
PollTicks == 1
CLIP_SECONDS == 15
WARMUP_SECONDS == 2
MIN_MOTION_GAP == 15
\* MOTION_CONFIRM_WINDOW = 1.0 (seconds)
MOTION_CONFIRM_WINDOW == 1

ClipTicks == CLIP_SECONDS * TicksPerSecond
WarmupTicks == WARMUP_SECONDS * TicksPerSecond
GapTicks == MIN_MOTION_GAP * TicksPerSecond
WindowTicks == MOTION_CONFIRM_WINDOW * TicksPerSecond
\* while the program is blocked in a sensor wait, time is followed in steps
\* of 5 s, on a grid: raw edges come at those times, or a few ticks later
IdleStep == 5 * TicksPerSecond

\* --------------------------------------------------------------- bounds
\* the clock stops advancing here
MaxTime == 700
\* a sleep returns at most this many ticks late
MaxJitter == 1
\* pir.wait_for_motion() returns at most this many ticks after the edge
MaxLatency == 4
\* the length of the pulse that raised a trigger is measured up to here
PulseCap == 5

VARIABLES
    pc,               \* position of main()
    clock,            \* time.time(), in ticks
    motion,           \* pir.motion_detected
    environ,          \* os.environ: the required keys
    missing,          \* keys named by require_env's RuntimeError
    outdir,           \* OUTPUT_DIR exists
    sensor,           \* the MotionSensor has been acquired
    camera,           \* picam2: "none", "started", "recording", "stopped"
    stops,            \* calls of picam2.stop()
    last_alert_time,  \* main's last_alert_time
    start,            \* motion_confirmed's start
    wake,             \* the earliest return of the current time.sleep
    raw,              \* the event's .h264 file exists
    mp4,              \* the event's .mp4 file: "absent", "empty", "ok"
    transcode,        \* outcome of the event's ffmpeg run: "none", "ok", "failed"
    exc,              \* the exception leaving main: "none", "interrupt", "error"
    raisedAt,         \* the position at which it was raised
    \* ---- observers of the current trigger, not program state
    alerts,           \* assignments to last_alert_time so far
    lat,              \* ticks since pir.wait_for_motion() returned
    pulseLen,         \* ticks the pulse that raised the trigger was active
    rerise,           \* the raw signal rose again after the trigger
    evEarly,          \* observed less than MIN_MOTION_GAP after last_alert_time
    evSampled,        \* a sample of pir.motion_detected was taken for it
    evFirst,          \* the first sample: "none", "active", "inactive"
    evActive,         \* some sample was active
    evInWindow,       \* every sample was taken strictly inside the window
    evRec,            \* calls of record_clip
    evSecs,           \* the seconds passed to record_clip
    evMail,           \* calls of send_email_with_attachment
    evReads,          \* reads of the attachment
    evConn,           \* SMTP connections opened
    evSent,           \* messages handed to server.send_message
    preRaw,           \* raw as the cleanup step of record_clip found it
    preMp4,           \* mp4 as the cleanup step of record_clip found it
    evUnlink,         \* raw_h264.unlink(): "none", "done", "failed"
    evMailErr         \* what the call raised: "none", "recipients",
                      \* "attachment", "smtp"

cfgVars == <<environ, missing, outdir, sensor>>
camVars == <<camera, stops>>
timeVars == <<start, wake>>
fileVars == <<raw, mp4, transcode>>
excVars == <<exc, raisedAt>>
progVars == <<pc, cfgVars, camVars, last_alert_time, timeVars, fileVars,
              excVars>>
gateVars == <<evEarly, evSampled, evFirst, evActive, evInWindow>>
recVars == <<evRec, evSecs, preRaw, preMp4, evUnlink>>
mailVars == <<evMail, evReads, evConn, evSent, evMailErr>>
evVars == <<gateVars, recVars, mailVars>>
histVars == <<alerts, lat, pulseLen, rerise>>
vars == <<progVars, clock, motion, evVars, histVars>>

\* ------------------------------------------------------ configuration
\* the keys require_env checks, in its order
REQUIRED == <<"SMTP_HOST", "SMTP_USER", "SMTP_PASS", "EMAIL_TO">>

\* os.environ.get(k) is truthy: the key is set to a non-empty string
Present(e, k) == IF k = "EMAIL_TO" THEN e.EMAIL_TO # <<>> ELSE e[k]

\* require_env: the keys it reports missing
Missing(e) == SelectSeq(REQUIRED, LAMBDA k : ~Present(e, k))

\* index of the first comma of s, 0 when there is none
RECURSIVE CommaAt(_, _)
CommaAt(s, i) ==
    IF i > Len(s) THEN 0
    ELSE IF s[i] = "," THEN i ELSE CommaAt(s, i + 1)

\* s.split(",")
RECURSIVE Split(_)
Split(s) ==
    LET i == CommaAt(s, 1)
    IN  IF i = 0 THEN <<s>>
        ELSE <<SubSeq(s, 1, i - 1)>> \o Split(SubSeq(s, i + 1, Len(s)))

\* x.strip()
RECURSIVE Strip(_)
Strip(x) ==
    IF x = <<>> THEN x
    ELSE IF Head(x) = " " THEN Strip(Tail(x))
    ELSE IF x[Len(x)] = " " THEN Strip(SubSeq(x, 1, Len(x) - 1))
    ELSE x

\* the pieces of EMAIL_TO.split(",") with x.strip() non-empty
Kept(s) == SelectSeq(Split(s), LAMBDA x : Strip(x) # <<>>)

\* recipients = [x.strip() for x in EMAIL_TO.split(",") if x.strip()]
Recipients(s) == [i \in 1..Len(Kept(s)) |-> Strip(Kept(s)[i])]

\* the values of EMAIL_TO tried: unset or empty, one address, blanks and
\* commas only
EmailTos == { <<>>, <<"a">>, <<" ", ",">> }

Environs ==
    [SMTP_HOST : BOOLEAN, SMTP_USER : BOOLEAN, SMTP_PASS : BOOLEAN,
     EMAIL_TO : EmailTos]

\* ---------------------------------------------------------------- Init
\* the observers of a trigger, cleared
EvReset ==
    /\ evEarly' = FALSE
    /\ evSampled' = FALSE
    /\ evFirst' = "none"
    /\ evActive' = FALSE
    /\ evInWindow' = TRUE
    /\ evRec' = 0
    /\ evSecs' = 0
    /\ evMail' = 0
    /\ evReads' = 0
    /\ evConn' = 0
    /\ evSent' = 0
    /\ preRaw' = FALSE
    /\ preMp4' = "absent"
    /\ evUnlink' = "none"
    /\ evMailErr' = "none"
    /\ lat' = 0
    /\ pulseLen' = PulseCap

\* the process starts; the clock reads from the epoch on
Init ==
    /\ pc = "require_env"
    /\ clock = 0
    /\ motion \in BOOLEAN
    /\ environ \in Environs
    /\ missing = <<>>
    /\ outdir = FALSE
    /\ sensor = FALSE
    /\ camera = "none"
    /\ stops = 0
    /\ last_alert_time = 0
    /\ start = 0
    /\ wake = 0
    /\ raw = FALSE
    /\ mp4 = "absent"
    /\ transcode = "none"
    /\ exc = "none"
    /\ raisedAt = "none"
    /\ alerts = 0
    /\ lat = 0
    /\ pulseLen = PulseCap
    /\ rerise = FALSE
    /\ evEarly = FALSE
    /\ evSampled = FALSE
    /\ evFirst = "none"
    /\ evActive = FALSE
    /\ evInWindow = TRUE
    /\ evRec = 0
    /\ evSecs = 0
    /\ evMail = 0
    /\ evReads = 0
    /\ evConn = 0
    /\ evSent = 0
    /\ preRaw = FALSE
    /\ preMp4 = "absent"
    /\ evUnlink = "none"
    /\ evMailErr = "none"

\* ------------------------------------------------------------- startup
\* main, line 108: require_env(); its RuntimeError leaves main
RequireEnv ==
    /\ pc = "require_env"
    /\ missing' = Missing(environ)
    /\ IF Missing(environ) # <<>>
       THEN pc' = "aborted" /\ exc' = "error" /\ raisedAt' = pc
       ELSE pc' = "mkdir" /\ UNCHANGED excVars
    /\ UNCHANGED <<environ, outdir, sensor, camVars, last_alert_time,
                   timeVars, fileVars, clock, motion, evVars, histVars>>

\* main, line 109: OUTPUT_DIR.mkdir(parents=True, exist_ok=True)
MakeOutputDir ==
    /\ pc = "mkdir"
    /\ outdir' = TRUE
    /\ pc' = "setup"
    /\ UNCHANGED <<environ, missing, sensor, camVars, last_alert_time,
                   timeVars, fileVars, excVars, clock, motion, evVars,
                   histVars>>

\* main, lines 111-119: MotionSensor(PIR_GPIO_PIN), Picamera2(),
\* configure, start
Setup ==
    /\ pc = "setup"
    /\ sensor' = TRUE
    /\ camera' = "started"
    /\ pc' = "warmup"
    /\ UNCHANGED <<environ, missing, outdir, stops, last_alert_time,
                   timeVars, fileVars, excVars, clock, motion, evVars,
                   histVars>>

\* main, line 120: time.sleep(WARMUP_SECONDS), then the try block is entered
Warmup ==
    /\ pc = "warmup"
    /\ clock' = clock + WarmupTicks
    /\ pc' = "wait_for_motion"
    /\ UNCHANGED <<cfgVars, camVars, last_alert_time, timeVars, fileVars,
                   excVars, motion, evVars, histVars>>

\* --------------------------------------------------------- environment
\* positions of the try block of main (lines 128-165)
TryStates ==
    {"wait_for_motion", "check_cooldown", "cooldown_wait", "confirm_loop",
     "confirm_sleep", "rejected_wait", "accept", "start_recording",
     "record_sleep", "transcode", "cleanup", "send_email", "read_attachment",
     "smtp", "wait_for_no_motion"}

\* positions before the try block
StartupStates == {"require_env", "mkdir", "setup", "warmup"}

\* positions where a trigger returned by pir.wait_for_motion() is handled
EventStates == TryStates \ {"wait_for_motion"}

\* the three pir.wait_for_no_motion() calls (lines 136, 141, 165)
NoMotionWaits == {"cooldown_wait", "rejected_wait", "wait_for_no_motion"}

Min(a, b) == IF a < b THEN a ELSE b

\* the pulse that raised the trigger is active and still being measured
ShortPulse == motion /\ ~rerise /\ pulseLen < PulseCap

\* the raw signal becomes active; an edge that raises a trigger comes at a
\* point of the 5 s grid
MotionStarts ==
    /\ pc \in TryStates
    /\ pc = "wait_for_motion" => clock % IdleStep = 0
    /\ ~motion
    /\ motion' = TRUE
    /\ rerise' = (pc \in EventStates)
    /\ pulseLen' = IF pc \in EventStates THEN PulseCap ELSE 0
    /\ UNCHANGED <<progVars, clock, evVars, alerts, lat>>

\* the raw signal becomes inactive
MotionStops ==
    /\ pc \in TryStates
    /\ motion
    /\ motion' = FALSE
    /\ UNCHANGED <<progVars, clock, evVars, histVars>>

\* d ticks pass
Advance(d) ==
    /\ d > 0
    /\ clock + d <= MaxTime
    /\ clock' = clock + d
    /\ pulseLen' = IF motion /\ ~rerise
                   THEN Min(pulseLen + d, PulseCap) ELSE pulseLen
    /\ lat' = IF pc = "check_cooldown" THEN lat + d ELSE lat
    /\ UNCHANGED <<progVars, motion, evVars, alerts, rerise>>

\* time passes while the program is blocked in a sensor wait: up to the
\* next point of the 5 s grid
TickBlocked ==
    /\ pc \in NoMotionWaits \cup {"wait_for_motion"}
    /\ Advance(IdleStep - (clock % IdleStep))

\* time passes between the return of pir.wait_for_motion() and line 133
TickLatency ==
    /\ pc = "check_cooldown"
    /\ lat < MaxLatency
    /\ Advance(1)

\* time passes in time.sleep(0.05) of motion_confirmed
TickPoll ==
    /\ pc = "confirm_sleep"
    /\ clock < wake + MaxJitter
    /\ Advance(1)

\* time passes in time.sleep(seconds) of record_clip
TickRecord ==
    /\ pc = "record_sleep"
    /\ \/ clock < wake /\ ShortPulse /\ Advance(1)
       \/ clock + IdleStep <= wake /\ Advance(IdleStep)
       \/ clock < wake /\ Advance(wake - clock)
       \/ clock >= wake /\ clock < wake + MaxJitter /\ Advance(1)

\* ------------------------------------------------------- the main loop
\* main, line 130: pir.wait_for_motion() returns
WaitForMotion ==
    /\ pc = "wait_for_motion"
    /\ motion
    /\ pc' = "check_cooldown"
    /\ UNCHANGED <<cfgVars, camVars, last_alert_time, timeVars, fileVars,
                   excVars, clock, motion, evVars, histVars>>

\* variant of CooldownActive: the window constant in place of the gap
CooldownWrongConstant(t, last) == t - last < WindowTicks

\* variant of CooldownActive: the end of the gap included
CooldownInclusive(t, last) == t - last <= GapTicks

\* main, line 134: now - last_alert_time < MIN_MOTION_GAP
CooldownActive(t, last) == t - last < GapTicks

\* main, lines 133-140: now = time.time() and the cooldown test;
\* motion_confirmed is entered (line 99) when the trigger is not suppressed
CheckCooldown ==
    /\ pc = "check_cooldown"
    /\ evEarly' = (clock - last_alert_time < GapTicks)
    /\ LET t == clock
       IN  IF CooldownActive(t, last_alert_time)
           THEN pc' = "cooldown_wait" /\ start' = start
           ELSE pc' = "confirm_loop" /\ start' = clock
    /\ lat' = 0
    /\ UNCHANGED <<cfgVars, camVars, last_alert_time, wake, fileVars,
                   excVars, clock, motion, alerts, pulseLen, rerise>>
    /\ UNCHANGED <<evSampled, evFirst, evActive, evInWindow, recVars,
                   mailVars>>

\* variant of InWindow: the comparison reversed
InWindowReversed(t, s) == t - s > WindowTicks

\* variant of InWindow: the end of the window included
InWindowInclusive(t, s) == t - s <= WindowTicks

\* variant of InWindow: the loop test always true
InWindowForever(t, s) == TRUE

\* motion_confirmed, line 100: time.time() - start < window_s
InWindow(t, s) == t - s < WindowTicks

\* motion_confirmed, lines 100-104: the loop test, then one sample of
\* pir.motion_detected, or the return of False
ConfirmLoop ==
    /\ pc = "confirm_loop"
    /\ IF InWindow(clock, start)
       THEN /\ evSampled' = TRUE
            /\ evFirst' = IF evFirst # "none" THEN evFirst
                          ELSE IF motion THEN "active" ELSE "inactive"
            /\ evActive' = (evActive \/ motion)
            /\ evInWindow' = (evInWindow /\ clock - start < WindowTicks)
            /\ IF motion
               THEN pc' = "accept" /\ wake' = wake /\ start' = 0
               ELSE /\ pc' = "confirm_sleep"
                    /\ wake' = clock + PollTicks
                    /\ start' = start
       ELSE /\ pc' = "rejected_wait"
            /\ start' = 0
            /\ UNCHANGED <<wake, evSampled, evFirst, evActive, evInWindow>>
    /\ UNCHANGED <<cfgVars, camVars, last_alert_time, fileVars, excVars,
                   clock, motion, evEarly, recVars, mailVars, histVars>>

\* motion_confirmed, line 103: time.sleep(0.05) returns
ConfirmWake ==
    /\ pc = "confirm_sleep"
    /\ clock >= wake
    /\ pc' = "confirm_loop"
    /\ wake' = 0
    /\ UNCHANGED <<cfgVars, camVars, last_alert_time, start, fileVars,
                   excVars, clock, motion, evVars, histVars>>

\* main, lines 144-149: the trigger is accepted; the clip gets a new name
AcceptEvent ==
    /\ pc = "accept"
    /\ last_alert_time' = clock
    /\ alerts' = alerts + 1
    /\ raw' = FALSE
    /\ mp4' = "absent"
    /\ transcode' = "none"
    /\ pc' = "start_recording"
    /\ UNCHANGED <<cfgVars, camVars, timeVars, excVars, clock, motion,
                   evVars, lat, pulseLen, rerise>>

\* ------------------------------------------------------------- shutdown
\* main, lines 169-173: finally: picam2.stop(); an exception of the stop
\* is swallowed and leaves the camera as it was
StopCamera ==
    /\ camera' \in {"stopped", camera}
    /\ stops' = stops + 1

\* Ctrl+C inside the try block: KeyboardInterrupt is raised at the
\* current statement, caught at line 167, and the finally clause runs
Interrupt ==
    /\ pc \in TryStates
    /\ exc' = "interrupt"
    /\ raisedAt' = pc
    /\ StopCamera
    /\ pc' = "exited"
    /\ EvReset
    /\ rerise' = FALSE
    /\ UNCHANGED <<cfgVars, last_alert_time, timeVars, fileVars, clock,
                   motion, alerts>>

\* Ctrl+C before the try block (lines 108-126): nothing catches it
InterruptStartup ==
    /\ pc \in StartupStates
    /\ exc' = "interrupt"
    /\ raisedAt' = pc
    /\ pc' = "killed"
    /\ UNCHANGED <<cfgVars, camVars, last_alert_time, timeVars, fileVars,
                   clock, motion, evVars, histVars>>

\* ---------------------------------------------------------- record_clip
\* variant of ClipArgument: another of the timing constants
ClipArgumentWarmup == WARMUP_SECONDS

\* main, line 150: the seconds passed to record_clip
ClipArgument == CLIP_SECONDS

\* main, line 150, and record_clip, lines 80-82:
\* picam2.start_recording(...) to the .h264 file.  It may raise: main has
\* no handler for that, the finally clause runs and the process dies.
StartRecording ==
    /\ pc = "start_recording"
    /\ \/ /\ evRec' = evRec + 1
          /\ evSecs' = ClipArgument
          /\ camera' = "recording"
          /\ raw' = TRUE
          /\ wake' = clock + ClipArgument * TicksPerSecond
          /\ pc' = "record_sleep"
          /\ UNCHANGED <<stops, excVars, gateVars, preRaw, preMp4, evUnlink,
                         mailVars, lat, pulseLen, rerise>>
       \/ /\ exc' = "error"
          /\ raisedAt' = pc
          /\ StopCamera
          /\ pc' = "crashed"
          /\ EvReset
          /\ rerise' = FALSE
          /\ UNCHANGED <<raw, wake>>
    /\ UNCHANGED <<cfgVars, last_alert_time, start, mp4, transcode, clock,
                   motion, alerts>>

\* variant of StoppedRecording: the encoder is left running
StillRecording == "recording"

\* record_clip, line 84: the camera after picam2.stop_recording()
StoppedRecording == "started"

\* record_clip, lines 83-84: time.sleep(seconds) returns,
\* picam2.stop_recording()
StopRecording ==
    /\ pc = "record_sleep"
    /\ clock >= wake
    /\ camera' = StoppedRecording
    /\ wake' = 0
    /\ pc' = "transcode"
    /\ UNCHANGED <<cfgVars, stops, last_alert_time, start, fileVars, excVars,
                   clock, motion, evVars, histVars>>

\* what ffmpeg leaves at out_path: a playable file, nothing, an empty file
TranscodeOutcomes == {"ok", "absent", "empty"}

\* record_clip, line 86: os.system("ffmpeg ..."); its exit status is dropped
Transcode ==
    /\ pc = "transcode"
    /\ \E out \in TranscodeOutcomes :
          /\ mp4' = out
          /\ transcode' = IF out = "ok" THEN "ok" ELSE "failed"
    /\ pc' = "cleanup"
    /\ UNCHANGED <<cfgVars, camVars, last_alert_time, timeVars, raw, excVars,
                   clock, motion, evVars, histVars>>

\* variant of Verified: the size test left out
VerifiedExists(m) == m # "absent"

\* record_clip, line 88: out_path.exists() and out_path.stat().st_size > 0
Verified(m) == m = "ok"

\* record_clip, lines 88-92: the raw file is unlinked when the final file
\* is verified; a failing unlink is swallowed.  record_clip returns.
Cleanup ==
    /\ pc = "cleanup"
    /\ preRaw' = raw
    /\ preMp4' = mp4
    /\ IF Verified(mp4)
       THEN \/ raw' = FALSE /\ evUnlink' = "done"
            \/ raw' = raw /\ evUnlink' = "failed"
       ELSE raw' = raw /\ evUnlink' = "none"
    /\ pc' = "send_email"
    /\ UNCHANGED <<cfgVars, camVars, last_alert_time, timeVars, mp4,
                   transcode, excVars, clock, motion, gateVars, evRec, evSecs,
                   mailVars, histVars>>

\* ------------------------------------------- send_email_with_attachment
\* variant of NoRecipients: EMAIL_TO itself tested, not the list
NoRecipientsRaw(s) == s = <<>>

\* send_email_with_attachment, line 51: if not recipients
NoRecipients(s) == Recipients(s) = <<>>

\* variant of OnSendError: the call is made again
OnSendErrorRetry == "send_email"

\* main, lines 162-165: except Exception prints the error and the loop
\* goes on to line 165
OnSendError == "wait_for_no_motion"

\* main, line 160, and send_email_with_attachment, lines 50-52: the call;
\* the RuntimeError for no recipients is caught at line 162
SendEmail ==
    /\ pc = "send_email"
    /\ evMail' = evMail + 1
    /\ IF NoRecipients(environ.EMAIL_TO)
       THEN pc' = OnSendError /\ evMailErr' = "recipients"
       ELSE pc' = "read_attachment" /\ evMailErr' = evMailErr
    /\ UNCHANGED <<cfgVars, camVars, last_alert_time, timeVars, fileVars,
                   excVars, clock, motion, gateVars, recVars, evReads, evConn,
                   evSent, histVars>>

\* send_email_with_attachment, line 60: attachment_path.read_bytes(); the
\* FileNotFoundError for a missing clip is caught at line 162
ReadAttachment ==
    /\ pc = "read_attachment"
    /\ evReads' = evReads + 1
    /\ IF mp4 = "absent"
       THEN pc' = OnSendError /\ evMailErr' = "attachment"
       ELSE pc' = "smtp" /\ evMailErr' = evMailErr
    /\ UNCHANGED <<cfgVars, camVars, last_alert_time, timeVars, fileVars,
                   excVars, clock, motion, gateVars, recVars, evMail, evConn,
                   evSent, histVars>>

\* send_email_with_attachment, lines 69-77: connect, STARTTLS, login and
\* server.send_message(msg); any of them may raise, caught at line 162
Smtp ==
    /\ pc = "smtp"
    /\ evConn' = evConn + 1
    /\ \/ /\ evSent' = evSent + 1
          /\ evMailErr' = evMailErr
          /\ pc' = "wait_for_no_motion"
       \/ /\ evSent' = evSent
          /\ evMailErr' = "smtp"
          /\ pc' = OnSendError
    /\ UNCHANGED <<cfgVars, camVars, last_alert_time, timeVars, fileVars,
                   excVars, clock, motion, gateVars, recVars, evMail, evReads,
                   histVars>>

\* ------------------------------------------------------------- re-arming
\* variant of NoMotion: the wait returns whatever the signal
NoMotionUnchecked == TRUE

\* pir.wait_for_no_motion() returns when the raw signal is inactive
NoMotion == ~motion

\* main, lines 130, 136, 141, 165 and record_clip, line 84: a sensor wait
\* or picam2.stop_recording() raises an exception that is not
\* KeyboardInterrupt.  main has no handler for it: the finally clause runs
\* and the exception leaves main.
Uncaught ==
    /\ pc \in NoMotionWaits \cup {"wait_for_motion", "record_sleep"}
    /\ pc = "record_sleep" => clock >= wake
    /\ exc' = "error"
    /\ raisedAt' = pc
    /\ StopCamera
    /\ pc' = "crashed"
    /\ EvReset
    /\ rerise' = FALSE
    /\ UNCHANGED <<cfgVars, last_alert_time, timeVars, fileVars, clock,
                   motion, alerts>>

\* main, lines 136, 141 and 165: pir.wait_for_no_motion() returns and the
\* loop goes back to line 130.  The files of earlier events keep their own
\* names and are never touched again: only the files of the event in
\* progress are followed.
WaitForNoMotion ==
    /\ pc \in NoMotionWaits
    /\ NoMotion
    /\ pc' = "wait_for_motion"
    /\ EvReset
    /\ rerise' = (motion /\ rerise)
    /\ raw' = FALSE
    /\ mp4' = "absent"
    /\ transcode' = "none"
    /\ UNCHANGED <<cfgVars, camVars, last_alert_time, timeVars, excVars,
                   clock, motion, alerts>>

\* -------------------------------------------------------- specification
Next ==
    \/ RequireEnv
    \/ MakeOutputDir
    \/ Setup
    \/ Warmup
    \/ MotionStarts
    \/ MotionStops
    \/ TickBlocked
    \/ TickLatency
    \/ TickPoll
    \/ TickRecord
    \/ WaitForMotion
    \/ CheckCooldown
    \/ ConfirmLoop
    \/ ConfirmWake
    \/ AcceptEvent
    \/ StartRecording
    \/ StopRecording
    \/ Transcode
    \/ Cleanup
    \/ SendEmail
    \/ ReadAttachment
    \/ Smtp
    \/ WaitForNoMotion
    \/ Uncaught
    \/ Interrupt
    \/ InterruptStartup

Spec == Init /\ [][Next]_vars

\* ------------------------------------------------------------ properties
\* positions of an accepted trigger (lines 144-165)
AcceptedStates ==
    {"accept", "start_recording", "record_sleep", "transcode", "cleanup",
     "send_email", "read_attachment", "smtp", "wait_for_no_motion"}

\* positions after record_clip has returned
AfterRecordClip ==
    {"send_email", "read_attachment", "smtp", "wait_for_no_motion"}

\* the trigger has been decided by motion_confirmed
Decided == pc \in AcceptedStates \cup {"rejected_wait"}

\* the pulse that raised the trigger was active for 0.2 s and the raw
\* signal has stayed inactive since
PulseOfFifthSecond ==
    /\ pulseLen * 5 = TicksPerSecond
    /\ ~motion
    /\ ~rerise

\* C1, as stated: with the cooldown not active, a trigger whose raw signal
\* is active for 0.2 s and then stays inactive is rejected: no recording
\* and no notification for it.
C1_ShortPulseRejected ==
    (Decided /\ ~evEarly /\ PulseOfFifthSecond)
        => (pc = "rejected_wait" /\ evRec = 0 /\ evMail = 0)

\* C1, amended: such a trigger is accepted exactly when the first sample
\* of motion_confirmed still sees the signal active, and rejected exactly
\* when the signal is already inactive at that first sample.
C1_ShortPulseDecidedByFirstSample ==
    (Decided /\ ~evEarly /\ PulseOfFifthSecond)
        => /\ (pc \in AcceptedStates) = (evFirst = "active")
           /\ (pc = "rejected_wait") = (evFirst = "inactive")
           /\ pc = "rejected_wait" => (evRec = 0 /\ evMail = 0)

\* C1 witness: a 0.2 s pulse that ended before the first sample is rejected
C1_Witness ==
    /\ pc = "rejected_wait"
    /\ ~evEarly
    /\ PulseOfFifthSecond
    /\ evFirst = "inactive"

\* C2: a trigger is accepted (record_clip is called) only if a sample
\* taken strictly inside the confirmation window was active; a trigger
\* whose samples were all inactive is never recorded.
C2_AcceptedOnlyIfSampleActive ==
    /\ pc \in AcceptedStates => (evSampled /\ evActive /\ evInWindow)
    /\ evRec > 0 => (pc \in AcceptedStates /\ evActive)
    /\ pc = "rejected_wait" => (~evActive /\ evRec = 0)

\* C2 witness: a trigger accepted on a later sample than the first
C2_Witness ==
    /\ pc = "record_sleep"
    /\ evRec = 1
    /\ evFirst = "inactive"
    /\ evActive

\* C3: every value assigned to last_alert_time is at least MIN_MOTION_GAP
\* greater than the value it replaces, so last_alert_time never decreases.
C3_AlertsGapApart ==
    [][/\ last_alert_time' >= last_alert_time
       /\ last_alert_time' # last_alert_time
            => last_alert_time' >= last_alert_time + GapTicks]_vars

\* C3 witness: a second event has been accepted
C3_Witness == alerts = 2 /\ pc = "record_sleep"

C5_OneClipOneNotification ==
    /\ evRec <= 1
    /\ evMail <= 1
    /\ evRec = 1 => evSecs = CLIP_SECONDS
    /\ pc = "record_sleep" => wake = last_alert_time + ClipTicks
    /\ pc = "wait_for_no_motion" => (evRec = 1 /\ evMail = 1)
    /\ pc \in {"cooldown_wait", "rejected_wait"} => (evRec = 0 /\ evMail = 0)

\* C5 witness: an accepted event recorded and mailed, about to re-arm
C5_Witness ==
    /\ pc = "wait_for_no_motion"
    /\ evRec = 1
    /\ evMail = 1
    /\ evSent = 1
    /\ ~motion

\* C6, as stated: when the transcoder fails (no final file, or an empty
\* one) send_email_with_attachment is not called and no mail is sent.
C6_NoNotificationAfterFailedTranscode ==
    transcode = "failed" =>
        /\ evMail = 0
        /\ evSent = 0
        /\ pc \notin {"read_attachment", "smtp"}

\* C7, as stated: after record_clip returns from a run whose transcoder
\* failed, the final file does not exist and the .h264 file is on disk.
C7_FailedTranscodeLeavesOnlyRaw ==
    (pc \in AfterRecordClip /\ transcode = "failed")
        => (mp4 = "absent" /\ raw)

\* C8: the cleanup step of record_clip never touches the final file; it
\* removes the raw file when the final file exists and is non-empty,
\* unless the unlink fails, which is not fatal; it removes nothing when
\* the final file is missing or empty.
C8_CleanupFrame ==
    pc \in AfterRecordClip =>
        /\ mp4 = preMp4
        /\ exc = "none"
        /\ preMp4 = "ok" => evUnlink \in {"done", "failed"}
        /\ (preMp4 = "ok" /\ evUnlink = "done") => (preRaw /\ ~raw)
        /\ (preMp4 = "ok" /\ evUnlink = "failed") => raw = preRaw
        /\ preMp4 # "ok" => (raw = preRaw /\ evUnlink = "none")

\* C8 witness: the unlink failed after a verified transcode and the loop
\* went on to the notification and the motion-inactive wait
C8_Witness ==
    /\ pc = "wait_for_no_motion"
    /\ preMp4 = "ok"
    /\ evUnlink = "failed"
    /\ raw
    /\ evSent = 1

\* C9: when EMAIL_TO, split on commas and stripped, has no entry left,
\* send_email_with_attachment raises before the attachment is read and
\* before an SMTP connection is opened, and sends nothing.
C9_NoSendWithoutRecipients ==
    Len(Recipients(environ.EMAIL_TO)) = 0 =>
        /\ evReads = 0
        /\ evConn = 0
        /\ evSent = 0
        /\ pc \notin {"read_attachment", "smtp"}
        /\ evMail > 0 => evMailErr = "recipients"

\* C9 witness: the call was made with an EMAIL_TO of blanks and commas
C9_Witness ==
    /\ environ.EMAIL_TO # <<>>
    /\ Len(Recipients(environ.EMAIL_TO)) = 0
    /\ evMail = 1
    /\ evMailErr = "recipients"
    /\ mp4 = "ok"

\* a required credential is missing, or EMAIL_TO yields no recipient
BadConfiguration ==
    \/ ~environ.SMTP_HOST
    \/ ~environ.SMTP_USER
    \/ ~environ.SMTP_PASS
    \/ Len(Recipients(environ.EMAIL_TO)) = 0

\* C10, as stated: with such a configuration main aborts in require_env,
\* naming every missing key, before the output directory is created and
\* before the sensor and the camera are acquired; no clip is recorded.
C10_BadConfigurationAborts ==
    BadConfiguration =>
        /\ ~outdir
        /\ ~sensor
        /\ camera = "none"
        /\ evRec = 0
        /\ pc \in {"require_env", "aborted", "killed"}
        /\ pc = "aborted" => missing = Missing(environ)

\* C11: a failure of the notification step (no recipients, missing
\* attachment, SMTP error) is caught in main: the call is made once, nothing
\* is sent, no exception leaves main, and the loop is at the motion-inactive
\* wait of line 165 with the camera as after a successful send.
C11_SendFailureNotFatal ==
    /\ evMailErr # "none" =>
          /\ pc = "wait_for_no_motion"
          /\ exc = "none"
          /\ evMail = 1
          /\ evSent = 0
          /\ camera = "started"
    /\ (pc = "wait_for_no_motion" /\ evMailErr = "none") => evSent = 1

\* C11 witness: the SMTP exchange failed and the loop is about to re-arm
C11_Witness ==
    /\ pc = "wait_for_no_motion"
    /\ evMailErr = "smtp"
    /\ evConn = 1
    /\ ~motion

\* C12, as stated: an error raised inside the main loop by record_clip or
\* by a sensor wait never ends the process; the loop is left only on an
\* external interrupt.
C12_ErrorsCaughtAtMainLoop ==
    /\ (exc = "error" /\ raisedAt \in TryStates) => pc \in TryStates
    /\ pc = "crashed" => exc = "interrupt"

\* C13, as stated: when an external interrupt ends the process after a
\* recording was started, the clip duration has run to its end and the
\* transcoder has been run.
C13_RecordingNotCancelled ==
    (pc = "exited" /\ exc = "interrupt" /\ raw) =>
        /\ clock >= last_alert_time + ClipTicks
        /\ transcode # "none"
        /\ raisedAt \notin {"record_sleep", "transcode"}

\* C14, as stated: an external interrupt arriving once the camera has been
\* started ends the process through the handler of main, with one attempt
\* of picam2.stop().
C14_InterruptStopsCamera ==
    (exc = "interrupt" /\ camera # "none") =>
        /\ pc = "exited"
        /\ stops = 1

\* C15: at most one clip is in production and at most one notification in
\* flight, and they never overlap: the camera records only during the
\* sleep of record_clip, record_clip is entered with no recording, file or
\* notification of the event under way, and the notification runs after
\* the recording has stopped and the transcoder has run.
C15_OnePipeline ==
    /\ evRec <= 1
    /\ evMail <= 1
    /\ evMail = 1 => evRec = 1
    /\ camera = "recording" => pc \in {"record_sleep", "exited", "crashed"}
    /\ pc = "start_recording" =>
          /\ camera = "started"
          /\ evRec = 0
          /\ evMail = 0
          /\ ~raw
          /\ transcode = "none"
    /\ pc \in {"transcode", "cleanup"} => (camera = "started" /\ evMail = 0)
    /\ pc \in {"send_email", "read_attachment", "smtp"} =>
          /\ camera = "started"
          /\ evRec = 1
          /\ transcode # "none"

\* C15 witness: the clip of a second event is being recorded, after the
\* pipeline of the first event has finished
C15_Witness ==
    /\ alerts = 2
    /\ camera = "recording"
    /\ evRec = 1
    /\ evMail = 0
    /\ raw

\* positions of a rejected trigger waiting for the signal to go inactive
RejectedWaits == {"cooldown_wait", "rejected_wait"}

\* C16: a rejected trigger stays in its pir.wait_for_no_motion() until the
\* raw signal is inactive, then the loop goes to pir.wait_for_motion(); it
\* records and notifies nothing; the loop reaches pir.wait_for_motion()
\* again only from a pir.wait_for_no_motion().
C16_RejectedTriggerConsumesCycle ==
    [][/\ pc \in RejectedWaits =>
             /\ pc' \in {pc, "wait_for_motion", "exited", "crashed"}
             /\ evRec' = 0
             /\ evMail' = 0
       /\ (pc \in RejectedWaits /\ pc' = "wait_for_motion") => ~motion
       /\ (pc \in EventStates /\ pc' = "wait_for_motion")
             => pc \in NoMotionWaits]_vars

\* C16 witness: a trigger rejected by confirmation waits while the raw
\* signal, which rose again, is active
C16_Witness ==
    /\ pc = "rejected_wait"
    /\ evSampled
    /\ ~evActive
    /\ motion
    /\ rerise

\* C17, as stated: last_alert_time changes only after the recording of the
\* event has been started.
C17_StampOnlyAfterRecordingStarted ==
    [][last_alert_time' # last_alert_time
          => (evRec > 0 /\ camera = "recording")]_vars

\* C17, amended: last_alert_time changes only at line 144, to the time
\* read there, for a trigger that passed the cooldown test and was
\* confirmed, before record_clip is called; it is unchanged by a
\* cooldown-suppressed trigger and by a rejected confirmation, and a
\* capture that fails to start leaves the new value in place.
C17_StampOnAcceptance ==
    [][/\ last_alert_time' # last_alert_time =>
             /\ pc = "accept"
             /\ pc' = "start_recording"
             /\ ~evEarly
             /\ evActive
             /\ evRec = 0
             /\ last_alert_time' = clock
       /\ pc \in {"check_cooldown", "cooldown_wait", "confirm_loop",
                  "confirm_sleep", "rejected_wait", "start_recording"}
             => last_alert_time' = last_alert_time]_vars

\* C17 witness: the capture of the first accepted event did not start and
\* last_alert_time holds the time of that event
C17_Witness ==
    /\ pc = "crashed"
    /\ raisedAt = "start_recording"
    /\ alerts = 1
    /\ last_alert_time > 0

\* positions between the acceptance of an event and the
\* pir.wait_for_no_motion() of line 165
BusyStates == AcceptedStates \ {"wait_for_no_motion"}

\* C18: between the acceptance of an event and the
\* pir.wait_for_no_motion() after its notification the sensor is not read,
\* and a raw pulse that starts while an event is handled is never the
\* trigger pir.wait_for_motion() returns for, so it gets no recording and
\* no notification of its own.
C18_TriggerDuringEventDropped ==
    [][/\ (pc = "wait_for_motion" /\ pc' = "check_cooldown")
             => (motion /\ ~rerise)
       /\ (pc \in BusyStates /\ pc' \in TryStates)
             => /\ UNCHANGED gateVars
                /\ pc' \in AcceptedStates
       /\ rerise' => (evRec' <= 1 /\ evMail' <= 1)]_vars

\* C18 witness: a pulse that started while the event was handled is still
\* active after the notification was sent
C18_Witness ==
    /\ pc = "wait_for_no_motion"
    /\ motion
    /\ rerise
    /\ evSent = 1

\* C20: once an event has been accepted, no trigger is suppressed by the
\* cooldown: every later return of pir.wait_for_motion() is observed at
\* least MIN_MOTION_GAP after last_alert_time and goes to confirmation.
C20_NoCooldownAfterAcceptedEvent ==
    alerts > 0 =>
        /\ pc # "cooldown_wait"
        /\ ~evEarly
        /\ pc = "check_cooldown" => clock - last_alert_time >= GapTicks
        /\ pc \in {"confirm_loop", "confirm_sleep"}
              => start - last_alert_time >= GapTicks

\* C20 witness: the trigger after an accepted event is observed exactly
\* MIN_MOTION_GAP after last_alert_time and goes to confirmation
C20_Witness ==
    /\ alerts = 1
    /\ pc = "confirm_loop"
    /\ start = last_alert_time + GapTicks

\* the statements of the loop body that neither block nor wait: the
\* interpreter goes on executing them
Statement ==
    \/ CheckCooldown
    \/ ConfirmLoop
    \/ ConfirmWake
    \/ AcceptEvent
    \/ StartRecording
    \/ StopRecording
    \/ Transcode
    \/ Cleanup
    \/ SendEmail
    \/ ReadAttachment
    \/ Smtp

\* main keeps running, the time of a sleep passes, and
\* pir.wait_for_no_motion() returns when the signal is inactive again and
\* again (it waits on an event that the inactive signal sets)
LiveSpec ==
    /\ Spec
    /\ WF_vars(Statement)
    /\ WF_vars(TickPoll)
    /\ WF_vars(TickRecord)
    /\ SF_vars(WaitForNoMotion)

\* the latest trigger whose handling ends before the clock of the model
\* stops
LiveHorizon == MaxTime - MaxLatency - WindowTicks - ClipTicks - MaxJitter

\* the loop is back at pir.wait_for_motion(), or was left by an interrupt
\* or an exception
Rearmed == pc \in {"wait_for_motion", "exited", "crashed"}

\* C19: if the raw signal is inactive again and again, every trigger is
\* followed by the return to pir.wait_for_motion(), unless an interrupt or
\* an exception ends the loop, whatever confirmation, transcoding and
\* notification give; and while the raw signal is active a
\* pir.wait_for_no_motion() never returns, so the loop does not re-arm.
C19_RearmsWhenSignalGoesInactive ==
    /\ ([]<>(~motion)) =>
          ((pc = "check_cooldown" /\ clock <= LiveHorizon) ~> Rearmed)
    /\ [][(pc \in NoMotionWaits /\ motion)
             => pc' \in {pc, "exited", "crashed"}]_vars

\* C19 witness: after a failed transcode and a failed notification the loop
\* waits at line 165 with the raw signal inactive
C19_Witness ==
    /\ pc = "wait_for_no_motion"
    /\ transcode = "failed"
    /\ evMailErr = "attachment"
    /\ ~motion
    /\ clock <= MaxTime

====
